---- MODULE Spec2Model ----
(***************************************************************************)
(* A model of perftester: the Checker of package check (RunChecks,        *)
(* RunCheck, Upload, Download, Delete, runParallel), the storage clients  *)
(* it drives through the client.Client interface, and the TextReporter of *)
(* package report that collects the Results.                              *)
(***************************************************************************)
EXTENDS Integers, Sequences, FiniteSets, TLC

----------------------------------------------------------------------------
(* Bounds of the model *)

\* largest NumParallel a configured file-test has
MaxParallel == 2
\* the clock stops ticking at MaxTime
MaxTime == 1
\* largest payload size in bytes
MaxSize == 2
\* largest number of failures the storage backends inject into a sweep
MaxFaults == 2

----------------------------------------------------------------------------
(* config: Operation, FileTest, Result *)

Upload == 0
Download == 1
Delete == 2
Operations == {Upload, Download, Delete}

\* error values: nil, or an error carrying its Error() message
Nil == <<>>
Err(msg) == <<msg>>
ErrorString(err) == err[1]

\* errs.Combine of two errors: nil when both are nil, the non-nil one when
\* only one is, a group whose message joins both otherwise
Combine(e1, e2) ==
    IF e1 = Nil THEN e2
    ELSE IF e2 = Nil THEN e1
    ELSE Err(ErrorString(e1) \o "; " \o ErrorString(e2))

FileTestIDs == {"ft1", "ft2"}
EndpointIDs == {"end1", "end2"}
\* s3 and storj are the repository's clients; mock is any other
\* implementation of the client.Client interface
ClientKinds == {"s3", "storj", "mock"}

----------------------------------------------------------------------------
(* Synthetic data and digests *)

RandMod == 8
ByteMod == 4
HashMod == 16

\* time.Now().UnixNano() at model time t
EpochNanos == 5
UnixNano(t) == EpochNanos + t

\* the first n bytes read from rand.New(rand.NewSource(seed)): a linear
\* congruential generator stands for math/rand
RECURSIVE randRead(_, _)
randRead(state, n) ==
    IF n <= 0 THEN <<>>
    ELSE LET s == (state * 5 + 3) % RandMod
         IN  <<s % ByteMod>> \o randRead(s, n - 1)

fileReader(fileTest, i) == randRead(fileTest.Seed + i, fileTest.Size)

\* sha256 over a byte sequence: a small multiplicative hash stands for it
RECURSIVE hashWrite(_, _)
hashWrite(h, bytes) ==
    IF bytes = <<>> THEN h
    ELSE hashWrite((h * 3 + Head(bytes) + 1) % HashMod, Tail(bytes))

Sum256(bytes) == hashWrite(0, bytes)

pathName(id, i) == id \o ToString(i)

newResultNow(t) == [StartTime |-> t, Duration |-> 0, Success |-> FALSE, Error |-> ""]

----------------------------------------------------------------------------
(* Maps *)

EmptyMap == <<>>
Put(m, k, v) == [x \in DOMAIN m \cup {k} |-> IF x = k THEN v ELSE m[x]]
Remove_Keep(m, k) == m
Remove(m, k) == [x \in DOMAIN m \ {k} |-> m[x]]

Report_KeepFirst(res, operation, fileTestID, endpointID, result) ==
    LET r1 == IF fileTestID \in DOMAIN res THEN res
              ELSE Put(res, fileTestID, EmptyMap)
        r2 == IF operation \in DOMAIN r1[fileTestID] THEN r1
              ELSE [r1 EXCEPT ![fileTestID] = Put(@, operation, EmptyMap)]
    IN  IF endpointID \in DOMAIN r2[fileTestID][operation] THEN r2
        ELSE [r2 EXCEPT ![fileTestID][operation] = Put(@, endpointID, result)]

\* TextReporter.Report on the nested map fileTestID -> operation -> endpointID
Report(res, operation, fileTestID, endpointID, result) ==
    LET r1 == IF fileTestID \in DOMAIN res THEN res
              ELSE Put(res, fileTestID, EmptyMap)
        r2 == IF operation \in DOMAIN r1[fileTestID] THEN r1
              ELSE [r1 EXCEPT ![fileTestID] = Put(@, operation, EmptyMap)]
    IN  [r2 EXCEPT ![fileTestID][operation] = Put(@, endpointID, result)]

----------------------------------------------------------------------------
(* Storage clients *)

\* whether a call of this client returns once its context is cancelled:
\* the s3 client passes no context to the SDK calls
HonoursCtx(kind) == kind = "storj"

DeadlineExceeded == "context deadline exceeded"

\* the error messages a failing client call can carry
CallErrors(kind, operation) ==
    IF kind = "s3" THEN
        {Err(IF operation = Upload THEN "failed to upload file"
             ELSE IF operation = Download THEN "failed to download file"
             ELSE "failed to delete file")}
    ELSE IF kind = "storj" THEN
        {Err(IF operation = Upload THEN "storj-client: upload failed"
             ELSE IF operation = Download THEN "storj-client: could not open object"
             ELSE "storj-client: could not delete object")}
    ELSE {Err("")}

CtxError(kind) ==
    IF kind = "storj" THEN Err("storj-client: " \o DeadlineExceeded)
    ELSE Err(DeadlineExceeded)

CallOutcomes_Hang(kind, operation, cancelled) ==
    IF HonoursCtx(kind) /\ cancelled THEN {CtxError(kind)}
    ELSE {}

\* the errors (Nil for success) a client call can return, given whether its
\* context is already cancelled
CallOutcomes(kind, operation, cancelled) ==
    IF HonoursCtx(kind) /\ cancelled THEN {CtxError(kind)}
    ELSE {Nil} \cup CallErrors(kind, operation)

\* errors of reading the download stream to its end
ReadOutcomes(kind, cancelled) ==
    IF HonoursCtx(kind) /\ cancelled THEN {Err(DeadlineExceeded)}
    ELSE {Nil, Err("unexpected EOF")}

CloseOutcomes == {Nil, Err("close failed")}

\* bytes a backend that damages the object hands back
Corrupt(bytes) ==
    IF bytes = <<>> THEN <<0>>
    ELSE [bytes EXCEPT ![1] = (@ + 1) % ByteMod]

----------------------------------------------------------------------------
(* State *)

VARIABLES
    fileTests,       \* Checker.fileTests: ID -> FileTest
    endpoints,       \* Checker.endpoints: sequence of [ID, Client]
    timeout,         \* Checker.timeout
    results,         \* TextReporter.results
    storage,         \* per endpoint index: object name -> bytes
    now,             \* the clock
    pc,              \* position of RunChecks
    remaining,       \* file-test IDs the range loop has not yet visited
    fileTestID,      \* loop variable of RunChecks
    epIdx,           \* index of the loop variable endpoint
    fileTest,        \* RunCheck's copy of the file-test
    operation,       \* operation in progress
    result,          \* the Result under construction
    deadline,        \* deadline of the operation's context
    expectedHashes,  \* Download's expected digests
    workers,         \* the goroutines of runParallel, by index
    egErr,           \* the errgroup's recorded error
    retErr,          \* what RunChecks returned
    returns,         \* history: the goroutines' returns, in order of time
    faults,          \* history: the failures the backends injected so far
    log,             \* history: operations started and Results submitted
    fileTestSizes,   \* TextReporter.fileTestSizes: ID -> size
    lock,            \* TextReporter.lock: the goroutines holding it
    callers,         \* the goroutines calling the TextReporter, by index
    applied,         \* history: the Report calls, in order of taking effect
    out,             \* the outcome of the last FormatResults call
    rows,            \* MakeTable's argument
    table,           \* MakeTable's outcome
    args,            \* the arguments of a function called on its own
    value            \* what that function returned

config == <<fileTests, endpoints, timeout>>
loopVars == <<remaining, fileTestID, epIdx, fileTest>>
opVars == <<operation, result, deadline, expectedHashes, workers, egErr, returns>>
reporterVars == <<fileTestSizes, lock, callers, applied, out>>
tableVars == <<rows, table, args, value>>
checkerVars == <<fileTests, endpoints, timeout, storage, now, pc, remaining,
                 fileTestID, epIdx, fileTest, operation, result, deadline,
                 expectedHashes, workers, egErr, retErr, returns, faults, log>>
vars == <<fileTests, endpoints, timeout, results, storage, now, pc,
          remaining, fileTestID, epIdx, fileTest, operation, result, deadline,
          expectedHashes, workers, egErr, retErr, returns, faults, log,
          fileTestSizes, lock, callers, applied, out, rows, table, args, value>>

\* no goroutine is calling the TextReporter, FormatResults was not called
NoOutcome == [calls |-> 0, text |-> "", err |-> Nil]
ReporterIdle ==
    /\ lock = {}
    /\ callers = <<>>
    /\ applied = <<>>
    /\ out = NoOutcome

\* MakeTable was not called
NoTable == [called |-> FALSE, text |-> "", err |-> Nil, panic |-> FALSE]
\* no function was called on its own
NoCall == [called |-> FALSE]
TableIdle ==
    /\ rows = <<>>
    /\ table = NoTable
    /\ args = NoCall
    /\ value = NoCall

NoFileTest == [NumParallel |-> 0, Timeout |-> 0, Size |-> 0, Seed |-> 0]

\* a file-test either leaves timeout and seed to the defaults or sets both
FileTestChoices ==
    {ft \in [NumParallel : {0} \cup (2..MaxParallel), Timeout : {0, 1},
             Size : {MaxSize}, Seed : {0, 1}] :
        (ft.Timeout = 0) <=> (ft.Seed = 0)}

EndpointChoices == [ID : EndpointIDs, Client : ClientKinds]

\* one endpoint of any client, or an s3 endpoint followed by a storj endpoint
\* as main's run appends them; the two IDs come from separate maps
EndpointLists ==
    {<<e>> : e \in {c \in EndpointChoices : c.ID = "end1"}}
    \cup {<<e1, e2>> : e1 \in {c \in EndpointChoices : c.Client = "s3" /\ c.ID = "end1"},
                       e2 \in {c \in EndpointChoices : c.Client = "storj"}}

FileTestMaps ==
    UNION {[ids -> FileTestChoices] : ids \in SUBSET FileTestIDs \ {{}}}

\* the model runs several workers per operation in sweeps of the one pair of
\* file-test ft1 against a storj endpoint, the client that passes the
\* operation's context on, and one worker in every other sweep
Parallel(fts) == \E id \in DOMAIN fts : fts[id].NumParallel > 1

Init ==
    /\ fileTests \in FileTestMaps
    /\ endpoints \in EndpointLists
    /\ Parallel(fileTests) =>
         /\ DOMAIN fileTests = {"ft1"}
         /\ Len(endpoints) = 1
         /\ endpoints[1].Client = "storj"
    \* sweeps over several file-tests run against a storj endpoint
    /\ Cardinality(DOMAIN fileTests) > 1 => endpoints[1].Client = "storj"
    /\ timeout = 2
    /\ results = EmptyMap
    /\ storage = [e \in DOMAIN endpoints |-> EmptyMap]
    /\ now = 0
    /\ pc = "RunChecks"
    /\ remaining = DOMAIN fileTests
    /\ fileTestID = ""
    /\ epIdx = 0
    /\ fileTest = NoFileTest
    /\ operation = Upload
    /\ result = newResultNow(0)
    /\ deadline = 0
    /\ expectedHashes = <<>>
    /\ workers = <<>>
    /\ egErr = Nil
    /\ retErr = Nil
    /\ returns = <<>>
    /\ faults = 0
    /\ log = <<>>
    \* main's run hands the configured sizes to NewTextReporter
    /\ fileTestSizes = [id \in DOMAIN fileTests |-> fileTests[id].Size]
    /\ ReporterIdle
    /\ TableIdle

----------------------------------------------------------------------------
(* The Checker *)

RunCheckOrder_DeleteFirst == <<Upload, Delete, Download>>

\* the order in which RunCheck calls the operations
RunCheckOrder == <<Upload, Download, Delete>>

PositionOf(op) == CHOOSE k \in DOMAIN RunCheckOrder : RunCheckOrder[k] = op

Resolve_KeepParallel(ft, t) ==
    [ft EXCEPT !.Timeout = IF @ <= 0 THEN timeout ELSE @,
               !.Seed = IF @ <= 0 THEN UnixNano(t) ELSE @]

\* RunCheck's defaults for the copy of the file-test it works on
Resolve(ft, t) ==
    [ft EXCEPT !.Timeout = IF @ <= 0 THEN timeout ELSE @,
               !.Seed = IF @ <= 0 THEN UnixNano(t) ELSE @,
               !.NumParallel = IF @ <= 0 THEN 1 ELSE @]

ReportedOperation_Pasted(op) == IF op = Delete THEN Upload ELSE op

\* the operation constant an operation passes to reporter.Report
ReportedOperation(op) == op

OperationReturn_OpError(opErr, reportErr) ==
    IF opErr # Nil THEN opErr ELSE reportErr

\* what Upload, Download and Delete return: the reporter's error only
OperationReturn(opErr, reportErr) == reportErr

ShouldReturn_Never(err) == FALSE

\* RunCheck and RunChecks return as soon as a call returns an error
ShouldReturn(err) == err # Nil

egRecord_Last(recorded, err) ==
    IF err # Nil THEN err ELSE recorded

\* errgroup.Group keeps the first non-nil error a goroutine returns
egRecord(recorded, err) ==
    IF err # Nil /\ recorded = Nil THEN err ELSE recorded

egWait_FirstError(ws) ==
    \/ \A i \in DOMAIN ws : ws[i].pc = "returned"
    \/ \E i \in DOMAIN ws : ws[i].pc = "returned" /\ ws[i].ret # Nil

\* eg.Wait returns when every goroutine has returned
egWait(ws) == \A i \in DOMAIN ws : ws[i].pc = "returned"

DigestsEqual_Always(digest, expected) == TRUE

\* the download worker's digest comparison
DigestsEqual(digest, expected) == digest = expected

\* the value the download worker returns after its deferred function ran:
\* the deferred function assigns the combined error to the local variable
\* err, the closure's result is unnamed and keeps the returned value
DeferredReturn(returned, localErr) == returned

\* the errors Report of an implementation of the reporter interface can
\* return; the TextReporter only ever returns nil
ReportOutcomes == {Nil, Err("report rejected")}

\* a failure the backend injects, as opposed to the error a cancelled
\* context forces on a client that honours it
IsFault(kind, err, cancelled) ==
    err # Nil /\ ~(HonoursCtx(kind) /\ cancelled)

Count(isFault) == IF isFault THEN 1 ELSE 0

Inject(n) ==
    /\ faults + n <= MaxFaults
    /\ faults' = faults + n

NewWorker ==
    [pc |-> "run", err |-> Nil, ret |-> Nil, opened |-> FALSE, strm |-> <<>>,
     readErr |-> Nil, closeErr |-> Nil]

Client == endpoints[epIdx].Client
Cancelled == now >= deadline
Running == {i \in DOMAIN workers : workers[i].pc # "returned"}

\* history record of an operation started, or of a Result submitted as
\* operation reported with the given outcome of Report
\* (late: a worker of the operation returned after its timeout had elapsed)
Event(ev, reported, success, reportErr) ==
    [ev |-> ev, op |-> operation, reported |-> reported, ft |-> fileTestID,
     ep |-> epIdx, epID |-> endpoints[epIdx].ID, success |-> success,
     reportErr |-> reportErr,
     late |-> ev = "submit" /\ \E k \in DOMAIN returns : returns[k].at >= deadline]

\* the locals of an operation that has returned go out of scope
ClearOperation ==
    /\ deadline' = 0
    /\ workers' = <<>>
    /\ egErr' = Nil
    /\ returns' = <<>>

\* RunChecks: the next iteration of the loops over fileTests and endpoints
RunChecksRange ==
    /\ pc = "RunChecks"
    /\ IF epIdx >= 1 /\ epIdx < Len(endpoints)
       THEN /\ epIdx' = epIdx + 1
            /\ UNCHANGED <<fileTestID, remaining>>
       ELSE /\ remaining # {}
            /\ \E id \in remaining :
                 /\ fileTestID' = id
                 /\ remaining' = remaining \ {id}
            /\ epIdx' = 1
    /\ pc' = "RunCheck"
    /\ ClearOperation
    /\ expectedHashes' = <<>>
    /\ UNCHANGED <<reporterVars, tableVars, config, results, storage, now, fileTest, operation, result,
                   retErr, faults, log>>

\* RunChecks: both loops are over, return nil
RunChecksReturn ==
    /\ pc = "RunChecks"
    /\ ~(epIdx >= 1 /\ epIdx < Len(endpoints))
    /\ remaining = {}
    /\ pc' = "done"
    /\ retErr' = Nil
    /\ ClearOperation
    /\ expectedHashes' = <<>>
    /\ UNCHANGED <<reporterVars, tableVars, config, results, storage, now, loopVars, operation, result,
                   faults, log>>

\* RunCheck up to its first operation
RunCheck ==
    /\ pc = "RunCheck"
    /\ fileTest' = Resolve(fileTests[fileTestID], now)
    /\ operation' = RunCheckOrder[1]
    /\ pc' = "Start"
    /\ UNCHANGED <<reporterVars, tableVars, config, results, storage, now, remaining, fileTestID, epIdx,
                   result, deadline, expectedHashes, workers, egErr, returns,
                   retErr, faults, log>>

\* Upload, Download, Delete up to runParallel's eg.Go loop: the expected
\* digests, newResultNow, context.WithTimeout, and the goroutines
StartOperation ==
    /\ pc = "Start"
    /\ expectedHashes' =
         IF operation = Download
         THEN [k \in 1..fileTest.NumParallel |->
                 Sum256(fileReader(fileTest, k - 1))]
         ELSE <<>>
    /\ result' = newResultNow(now)
    /\ deadline' = now + fileTest.Timeout
    /\ workers' = [i \in 0..(fileTest.NumParallel - 1) |-> NewWorker]
    /\ egErr' = Nil
    /\ returns' = <<>>
    /\ pc' = "Wait"
    /\ log' = Append(log, Event("start", operation, FALSE, Nil))
    /\ UNCHANGED <<reporterVars, tableVars, config, results, storage, now, loopVars, operation, retErr,
                   faults>>

\* a goroutine returns ret: the errgroup records it
Return(i, w, ret) ==
    LET final == [w EXCEPT !.pc = "returned", !.ret = ret]
    IN  /\ workers' = [workers EXCEPT ![i] = final]
        /\ egErr' = egRecord(egErr, ret)
        /\ returns' = Append(returns, [i |-> i, at |-> now, w |-> final])

\* the upload worker: endpoint.Client.Upload of the generated payload
UploadWorker(i) ==
    /\ pc = "Wait" /\ operation = Upload
    /\ workers[i].pc = "run"
    /\ \E e \in CallOutcomes(Client, Upload, Cancelled) :
         /\ Inject(Count(IsFault(Client, e, Cancelled)))
         /\ Return(i, [workers[i] EXCEPT !.err = e], e)
         /\ storage' = IF e = Nil
                       THEN [storage EXCEPT ![epIdx] =
                               Put(@, pathName(fileTestID, i), fileReader(fileTest, i))]
                       ELSE storage
    /\ UNCHANGED <<reporterVars, tableVars, config, results, now, pc, loopVars, operation, result,
                   deadline, expectedHashes, retErr, log>>

\* the delete worker: endpoint.Client.Delete
DeleteWorker(i) ==
    /\ pc = "Wait" /\ operation = Delete
    /\ workers[i].pc = "run"
    /\ \E e \in CallOutcomes(Client, Delete, Cancelled) :
         /\ Inject(Count(IsFault(Client, e, Cancelled)))
         /\ Return(i, [workers[i] EXCEPT !.err = e], e)
         /\ storage' = IF e = Nil
                       THEN [storage EXCEPT ![epIdx] = Remove(@, pathName(fileTestID, i))]
                       ELSE storage
    /\ UNCHANGED <<reporterVars, tableVars, config, results, now, pc, loopVars, operation, result,
                   deadline, expectedHashes, retErr, log>>

\* the download worker up to the return of endpoint.Client.Download
DownloadOpen(i) ==
    /\ pc = "Wait" /\ operation = Download
    /\ workers[i].pc = "run"
    /\ LET name == pathName(fileTestID, i)
           stored == name \in DOMAIN storage[epIdx]
       IN  \E e \in CallOutcomes(Client, Download, Cancelled) :
             /\ e = Nil => stored
             /\ IF e # Nil
                THEN /\ Inject(Count(stored /\ IsFault(Client, e, Cancelled)))
                     /\ Return(i, [workers[i] EXCEPT !.err = e], e)
                ELSE /\ \E bytes \in {storage[epIdx][name], Corrupt(storage[epIdx][name])} :
                          /\ Inject(Count(bytes # storage[epIdx][name]))
                          /\ workers' = [workers EXCEPT ![i].pc = "opened",
                                                        ![i].opened = TRUE,
                                                        ![i].strm = bytes]
                     /\ UNCHANGED <<egErr, returns>>
    /\ UNCHANGED <<reporterVars, tableVars, config, results, storage, now, pc, loopVars, operation,
                   result, deadline, expectedHashes, retErr, log>>

\* the download worker after the stream is open: io.Copy into the hash, the
\* digest comparison, the deferred strm.Close and the return
DownloadCopy(i) ==
    /\ pc = "Wait" /\ operation = Download
    /\ workers[i].pc = "opened"
    /\ \E e \in ReadOutcomes(Client, Cancelled), c \in CloseOutcomes :
         LET digest == Sum256(workers[i].strm)
             mismatch == Err("unexpected " \o fileTestID \o "/" \o ToString(i)
                             \o " file contents")
             err == IF e # Nil THEN e
                    ELSE IF ~DigestsEqual(digest, expectedHashes[i + 1]) THEN mismatch
                    ELSE Nil
             localErr == Combine(err, c)
         IN  /\ Inject(Count(IsFault(Client, e, Cancelled)) + Count(c # Nil))
             /\ Return(i, [workers[i] EXCEPT !.readErr = e, !.closeErr = c,
                                             !.err = localErr],
                       DeferredReturn(err, localErr))
    /\ UNCHANGED <<reporterVars, tableVars, config, results, storage, now, pc, loopVars, operation,
                   result, deadline, expectedHashes, retErr, log>>

\* time passes while a client call is in flight
Tick ==
    /\ pc = "Wait"
    /\ Running # {}
    /\ now < MaxTime
    /\ now' = now + 1
    /\ UNCHANGED <<reporterVars, tableVars, config, results, storage, pc, loopVars, opVars, retErr, faults,
                   log>>

\* Upload, Download, Delete after runParallel returned: the Result, the
\* call of reporter.Report, and the returns of RunCheck and RunChecks
FinishOperation ==
    /\ pc = "Wait"
    /\ egWait(workers)
    /\ LET err == egErr
           res == [result EXCEPT !.Duration = now - result.StartTime,
                                 !.Success = (err = Nil),
                                 !.Error = IF err # Nil THEN ErrorString(err) ELSE @]
           reported == ReportedOperation(operation)
       IN  /\ result' = res
           /\ \E reportErr \in ReportOutcomes :
                LET ret == OperationReturn(err, reportErr)
                IN  /\ results' = IF reportErr = Nil
                                  THEN Report(results, reported, fileTestID,
                                              endpoints[epIdx].ID, res)
                                  ELSE results
                    /\ log' = Append(log, Event("submit", reported, res.Success, reportErr))
                    /\ IF ShouldReturn(ret)
                       THEN /\ pc' = "done"
                            /\ retErr' = ret
                            /\ operation' = operation
                       ELSE /\ retErr' = retErr
                            /\ IF PositionOf(operation) = Len(RunCheckOrder)
                               THEN /\ pc' = "RunChecks"
                                    /\ operation' = operation
                               ELSE /\ pc' = "Start"
                                    /\ operation' = RunCheckOrder[PositionOf(operation) + 1]
    /\ UNCHANGED <<reporterVars, tableVars, config, storage, now, loopVars, deadline, expectedHashes,
                   workers, egErr, returns, faults>>

Next ==
    \/ RunChecksRange
    \/ RunChecksReturn
    \/ RunCheck
    \/ StartOperation
    \/ \E i \in DOMAIN workers : UploadWorker(i)
    \/ \E i \in DOMAIN workers : DownloadOpen(i)
    \/ \E i \in DOMAIN workers : DownloadCopy(i)
    \/ \E i \in DOMAIN workers : DeleteWorker(i)
    \/ Tick
    \/ FinishOperation

Spec == Init /\ [][Next]_vars

\* the steps of the goroutine that runs RunChecks
RunChecksSteps ==
    \/ RunChecksRange
    \/ RunChecksReturn
    \/ RunCheck
    \/ StartOperation
    \/ FinishOperation

\* a client call of some worker goroutine returns
ClientReturns ==
    \E i \in DOMAIN workers :
        UploadWorker(i) \/ DownloadOpen(i) \/ DownloadCopy(i) \/ DeleteWorker(i)

\* the sweeps followed to their end: several workers per operation with a
\* configured timeout, sweeps over two endpoints, and sweeps over two
\* file-tests of the same values
LiveInit ==
    /\ Init
    /\ IF Parallel(fileTests)
       THEN fileTests["ft1"].Timeout > 0
       ELSE \/ Len(endpoints) = 2 /\ endpoints[1].ID # endpoints[2].ID
            \/ /\ DOMAIN fileTests = FileTestIDs
               /\ fileTests["ft1"] = fileTests["ft2"]

\* the sweep when the goroutine of RunChecks keeps running and every client
\* call eventually returns
LiveSpec ==
    /\ LiveInit
    /\ [][Next]_vars
    /\ WF_vars(RunChecksSteps)
    /\ WF_vars(ClientReturns)

----------------------------------------------------------------------------
(* package report: sorting and collecting the IDs *)

\* Go compares config.ID values as strings; the IDs of the model in that order
IDOrder == <<"end1", "end2", "ft1", "ft2">>
IDRank == [id \in FileTestIDs \cup EndpointIDs |->
              CHOOSE k \in DOMAIN IDOrder : IDOrder[k] = id]
OperationRank == [o \in Operations |-> o]

RECURSIVE Insert(_, _, _)
Insert(sorted, x, rank) ==
    IF sorted = <<>> THEN <<x>>
    ELSE IF rank[x] < rank[Head(sorted)] THEN <<x>> \o sorted
    ELSE <<Head(sorted)>> \o Insert(Tail(sorted), x, rank)

\* sort.Slice with a less function on ranks, as an insertion sort
RECURSIVE SortSlice(_, _)
SortSlice(slice, rank) ==
    IF slice = <<>> THEN <<>>
    ELSE Insert(SortSlice(Tail(slice), rank), Head(slice), rank)

sortIDs_Unsorted(slice) == slice

\* sort.Slice(fileTestIDs, ...) and sort.Slice(endpointIDs, ...)
sortIDs(slice) == SortSlice(slice, IDRank)

sortOperations_Unsorted(slice) == slice

\* sort.Slice(operations, ...)
sortOperations(slice) == SortSlice(slice, OperationRank)

InSeq(seq, x) == \E k \in DOMAIN seq : seq[k] = x

appendUnseen_Always(seq, x) == Append(seq, x)

\* append x unless the seen map already has it
appendUnseen(seq, x) == IF InSeq(seq, x) THEN seq ELSE Append(seq, x)

RECURSIVE appendAllUnseen(_, _)
appendAllUnseen(seq, xs) ==
    IF xs = <<>> THEN seq
    ELSE appendAllUnseen(appendUnseen(seq, Head(xs)), Tail(xs))

RECURSIVE Concat(_)
Concat(seqs) == IF seqs = <<>> THEN <<>> ELSE Head(seqs) \o Concat(Tail(seqs))

\* the orders in which range can visit the keys of a map: Go leaves the order
\* unspecified, the model draws one order for each key type out of four
AscendingOrder ==
    [ft |-> <<"ft1", "ft2">>, op |-> <<Upload, Download, Delete>>,
     ep |-> <<"end1", "end2">>]
RangeOrders ==
    {AscendingOrder,
     [ft |-> <<"ft2", "ft1">>, op |-> <<Delete, Download, Upload>>,
      ep |-> <<"end2", "end1">>],
     [ft |-> <<"ft2", "ft1">>, op |-> <<Download, Upload, Delete>>,
      ep |-> <<"end1", "end2">>],
     [ft |-> <<"ft1", "ft2">>, op |-> <<Delete, Upload, Download>>,
      ep |-> <<"end2", "end1">>]}

\* the keys of map m as range visits them under the order keyOrder
Range(m, keyOrder) == SelectSeq(keyOrder, LAMBDA k : k \in DOMAIN m)

uniqueSortedIDs(res, order) ==
    LET fts == Range(res, order.ft)
        ops(ft) == Range(res[ft], order.op)
        opVisits == Concat([i \in DOMAIN fts |-> ops(fts[i])])
        epVisits ==
            Concat([i \in DOMAIN fts |->
                Concat([j \in DOMAIN ops(fts[i]) |->
                    Range(res[fts[i]][ops(fts[i])[j]], order.ep)])])
    IN  [fileTestIDs |-> sortIDs(appendAllUnseen(<<>>, fts)),
         endpointIDs |-> sortIDs(appendAllUnseen(<<>>, epVisits)),
         operations |-> sortOperations(appendAllUnseen(<<>>, opVisits))]

----------------------------------------------------------------------------
(* package report: cells and tables *)

RECURSIVE Repeat(_, _)
\* strings.Repeat for a count that is not negative
Repeat(s, count) == IF count <= 0 THEN "" ELSE s \o Repeat(s, count - 1)

RECURSIVE Join(_)
Join(strs) == IF strs = <<>> THEN "" ELSE Head(strs) \o Join(Tail(strs))

\* Operation.String
OperationString(o) ==
    IF o = Upload THEN "Upload"
    ELSE IF o = Download THEN "Download"
    ELSE IF o = Delete THEN "Delete"
    ELSE ""

\* time.Duration.String of a duration of d whole seconds
DurationString(d) ==
    IF d < 60 THEN ToString(d) \o "s"
    ELSE IF d < 3600 THEN ToString(d \div 60) \o "m" \o ToString(d % 60) \o "s"
    ELSE ToString(d \div 3600) \o "h" \o ToString((d % 3600) \div 60) \o "m"
         \o ToString(d % 60) \o "s"

FormatFloat_Truncate(num, den) ==
    IF den = 0 THEN (IF num = 0 THEN "NaN" ELSE "+Inf")
    ELSE LET h == (num * 100) \div den
         IN  ToString(h \div 100) \o "." \o ToString((h % 100) \div 10)
             \o ToString(h % 10)

\* strconv.FormatFloat(num/den, 'f', 2, 64) for num >= 0 and den >= 0
FormatFloat(num, den) ==
    IF den = 0 THEN (IF num = 0 THEN "NaN" ELSE "+Inf")
    ELSE LET q == (num * 100) \div den
             r == (num * 100) % den
             h == IF 2 * r > den \/ (2 * r = den /\ q % 2 = 1) THEN q + 1 ELSE q
         IN  ToString(h \div 100) \o "." \o ToString((h % 100) \div 10)
             \o ToString(h % 10)

\* a nil *config.Result
NilResult == [nil |-> TRUE]

\* the value of m[k], the zero value when the key is absent
Get(m, k, zero) == IF k \in DOMAIN m THEN m[k] ELSE zero

\* results[fileTestID][operation][endpointID]
Lookup(res, ftID, op, endpointID) ==
    Get(Get(Get(res, ftID, EmptyMap), op, EmptyMap), endpointID, NilResult)

BytesPerMegabit == 125000

formatResultForRow_BySuccess(op, fileTestSize, r) ==
    IF r = NilResult THEN "-"
    ELSE IF ~r.Success THEN "ERR"
    ELSE IF op = Delete THEN DurationString(r.Duration)
    ELSE FormatFloat(fileTestSize, BytesPerMegabit * r.Duration) \o " Mbps"

formatResultForRow(op, fileTestSize, r) ==
    IF r = NilResult THEN "-"
    ELSE IF r.Error # "" THEN "ERR"
    ELSE IF op = Delete THEN DurationString(r.Duration)
    ELSE FormatFloat(fileTestSize, BytesPerMegabit * r.Duration) \o " Mbps"

padding == 5

\* MakeTable's first loop: the column count, and whether a row differs from it
RECURSIVE ScanRows(_, _)
ScanRows(rs, numColumns) ==
    IF rs = <<>> THEN [mismatch |-> FALSE, numColumns |-> numColumns]
    ELSE LET n == IF numColumns = 0 THEN Len(Head(rs)) ELSE numColumns
         IN  IF Len(Head(rs)) # n
             THEN [mismatch |-> TRUE, numColumns |-> n]
             ELSE ScanRows(Tail(rs), n)

RECURSIVE MaxOf(_)
MaxOf(S) ==
    IF S = {} THEN 0
    ELSE LET x == CHOOSE y \in S : TRUE
             m == MaxOf(S \ {x})
         IN  IF x > m THEN x ELSE m

RECURSIVE SumOf(_)
SumOf(f) ==
    IF DOMAIN f = {} THEN 0
    ELSE LET k == CHOOSE y \in DOMAIN f : TRUE
         IN  f[k] + SumOf([x \in DOMAIN f \ {k} |-> f[x]])

\* maxColumnLenghts: for each column index of some row, the longest item
maxColumnLenghts(rs) ==
    [i \in 1..MaxOf({Len(rs[k]) : k \in DOMAIN rs}) |->
        MaxOf({Len(rs[k][i]) : k \in {j \in DOMAIN rs : i <= Len(rs[j])}})]

\* one row of the table: every item but the last is padded to its column
RowText(row, maxes) ==
    Join([i \in DOMAIN row |->
            row[i] \o (IF i < Len(row)
                       THEN Repeat(" ", maxes[i] - Len(row[i]) + padding)
                       ELSE "\n")])

\* MakeTable: an error for mismatched rows, a panic when strings.Repeat gets
\* a negative count for the separator, the text otherwise
MakeTable(rs, headerSeperator) ==
    LET scan == ScanRows(rs, 0)
        maxes == maxColumnLenghts(rs)
        totalLength == (scan.numColumns - 1) * padding + SumOf(maxes)
        separated == rs # <<>> /\ headerSeperator # ""
        body == Join([i \in DOMAIN rs |->
                        RowText(rs[i], maxes)
                        \o (IF i = 1 /\ separated
                            THEN Repeat(headerSeperator, totalLength) \o "\n"
                            ELSE "")])
    IN  IF scan.mismatch
        THEN [text |-> "", err |-> Err("Mismatched column numbers"), panic |-> FALSE]
        ELSE IF separated /\ totalLength < 0
        THEN [text |-> "", err |-> Nil, panic |-> TRUE]
        ELSE [text |-> body, err |-> Nil, panic |-> FALSE]

filePrefix == "File: "

SizeOf_Default(sizes, ftID) == Get(sizes, ftID, 1)

\* fileTestSizes[fileTestID]: zero when the map has no such key
SizeOf(sizes, ftID) == Get(sizes, ftID, 0)

\* the rows formatResults hands to MakeTable for one file-test
tableRows(sizes, res, ids, ftID) ==
    <<(<<"Operation">> \o ids.endpointIDs)>>
    \o [i \in DOMAIN ids.operations |->
          <<OperationString(ids.operations[i])>>
          \o [j \in DOMAIN ids.endpointIDs |->
                formatResultForRow(ids.operations[i], SizeOf(sizes, ftID),
                    Lookup(res, ftID, ids.operations[i], ids.endpointIDs[j]))]]

\* the size check sits in the innermost loop: it runs when there is a cell
UnknownSize(sizes, ids, ftID) ==
    /\ ids.operations # <<>>
    /\ ids.endpointIDs # <<>>
    /\ SizeOf(sizes, ftID) = 0

\* the text of one file-test's section
SectionText(sizes, res, ids, ftID) ==
    LET stars == Repeat("*", Len(filePrefix) + Len(ftID))
    IN  stars \o "\n" \o filePrefix \o ftID \o "\n" \o stars \o "\n" \o "\n"
        \o MakeTable(tableRows(sizes, res, ids, ftID), "-").text \o "\n"

\* formatResults over IDs collected earlier: the first file-test of unknown
\* size ends it with an error and no text
formatSections(sizes, res, ids) ==
    LET failing == {k \in DOMAIN ids.fileTestIDs :
                       UnknownSize(sizes, ids, ids.fileTestIDs[k])}
        ragged == {k \in DOMAIN ids.fileTestIDs :
                      MakeTable(tableRows(sizes, res, ids, ids.fileTestIDs[k]), "-").err # Nil}
    IN  IF failing # {}
        THEN [text |-> "",
              err |-> Err("Unknown fileTestSize for "
                          \o ids.fileTestIDs[CHOOSE k \in failing :
                                                \A j \in failing : k <= j])]
        ELSE IF ragged # {}
        THEN [text |-> "", err |-> Err("Mismatched column numbers")]
        ELSE [text |-> Join([k \in DOMAIN ids.fileTestIDs |->
                               SectionText(sizes, res, ids, ids.fileTestIDs[k])]),
              err |-> Nil]

formatResults(sizes, res, order) ==
    formatSections(sizes, res, uniqueSortedIDs(res, order))

----------------------------------------------------------------------------
(* The TextReporter called by one goroutine: Report and FormatResults *)

\* largest number of Report calls of a sequential run
MaxSubmits == 2

\* the Checker is not running
CheckerIdle ==
    /\ fileTests = EmptyMap
    /\ endpoints = <<>>
    /\ timeout = 0
    /\ storage = <<>>
    /\ now = 0
    /\ pc = "idle"
    /\ remaining = {}
    /\ fileTestID = ""
    /\ epIdx = 0
    /\ fileTest = NoFileTest
    /\ operation = Upload
    /\ result = newResultNow(0)
    /\ deadline = 0
    /\ expectedHashes = <<>>
    /\ workers = <<>>
    /\ egErr = Nil
    /\ retErr = Nil
    /\ returns = <<>>
    /\ faults = 0
    /\ log = <<>>

\* the size maps handed to NewTextReporter: every file-test configured, ft2
\* absent, ft1 of size zero, neither file-test configured
SizeMaps ==
    {[id \in FileTestIDs |-> BytesPerMegabit],
     [id \in {"ft1"} |-> BytesPerMegabit],
     [id \in FileTestIDs |-> IF id = "ft1" THEN 0 ELSE BytesPerMegabit],
     [id \in {"ft1"} |-> 0]}

\* the Results submitted: a success, a failure whose Success flag is set as
\* in the package's test, a failure without a message
ResultChoices ==
    {[StartTime |-> 0, Duration |-> 2, Success |-> TRUE, Error |-> ""],
     [StartTime |-> 0, Duration |-> 1, Success |-> TRUE, Error |-> "boom"],
     [StartTime |-> 0, Duration |-> 0, Success |-> FALSE, Error |-> ""]}

\* the triples the sequential runs submit to
SubmittedTriples ==
    {<<Upload, "ft1", "end1">>, <<Download, "ft1", "end2">>,
     <<Delete, "ft2", "end1">>, <<Upload, "ft2", "end2">>}

NewCaller ==
    [kind |-> "", pc |-> "idle", operation |-> Upload, fileTestID |-> "",
     endpointID |-> "", result |-> NilResult, ok |-> FALSE, waited |-> FALSE,
     ids |-> <<>>, text |-> "", err |-> Nil]

\* the record of a Report call that has returned
ReturnedReport(op, ft, ep, r) ==
    [NewCaller EXCEPT !.kind = "Report", !.pc = "returned", !.operation = op,
                      !.fileTestID = ft, !.endpointID = ep, !.result = r]

\* the outcome of a FormatResults call, and whether it is the first call or
\* a further one
Outcome(o) ==
    [calls |-> IF out.calls = 0 THEN 1 ELSE 2, text |-> o.text, err |-> o.err]

FormatInit ==
    /\ CheckerIdle
    /\ TableIdle
    /\ ReporterIdle
    /\ results = EmptyMap
    /\ fileTestSizes \in SizeMaps

\* TextReporter.Report, from Lock to the deferred Unlock
CallReport ==
    /\ Len(applied) < MaxSubmits
    /\ \E t \in SubmittedTriples, r \in ResultChoices :
         /\ results' = Report(results, t[1], t[2], t[3], r)
         /\ callers' = Append(callers, ReturnedReport(t[1], t[2], t[3], r))
         /\ applied' = Append(applied, Len(callers) + 1)
    /\ out' = NoOutcome
    /\ UNCHANGED <<checkerVars, tableVars, fileTestSizes, lock>>

\* TextReporter.FormatResults, from Lock to the deferred Unlock
CallFormatResults ==
    /\ \E order \in RangeOrders :
         out' = Outcome(formatResults(fileTestSizes, results, order))
    /\ UNCHANGED <<checkerVars, tableVars, results, fileTestSizes, lock,
                   callers, applied>>

FormatNext ==
    \/ CallReport
    \/ CallFormatResults

FormatSpec == FormatInit /\ [][FormatNext]_vars

----------------------------------------------------------------------------
(* The TextReporter called by several goroutines *)

\* number of goroutines calling the TextReporter
MaxCallers == 3

Callers == 1..MaxCallers

\* the goroutines submit to triples that share the file-test, and the
\* operation or the endpoint, with another triple
ConcurrentTriples ==
    {<<Upload, "ft1", "end1">>, <<Upload, "ft1", "end2">>,
     <<Download, "ft1", "end1">>}

\* goroutine g submits a Result of its own
ResultOf(g) ==
    [StartTime |-> 0, Duration |-> g, Success |-> g % 2 = 1,
     Error |-> IF g % 2 = 1 THEN "" ELSE "boom"]

ReportLockFree_Always(l) == TRUE

\* s.lock.Lock() of Report returns when no goroutine holds the lock
ReportLockFree(l) == l = {}

FormatLockFree_Always(l) == TRUE

\* s.lock.Lock() of FormatResults returns when no goroutine holds the lock
FormatLockFree(l) == l = {}

ReporterInit ==
    /\ CheckerIdle
    /\ TableIdle
    /\ results = EmptyMap
    /\ fileTestSizes = [id \in FileTestIDs |-> BytesPerMegabit]
    /\ lock = {}
    /\ callers = [g \in Callers |-> NewCaller]
    /\ applied = <<>>
    /\ out = NoOutcome

\* a goroutine calls Report
ReportCall(g) ==
    /\ callers[g].pc = "idle"
    /\ \E t \in ConcurrentTriples :
         callers' = [callers EXCEPT ![g] =
                       [@ EXCEPT !.kind = "Report", !.pc = "lock",
                                 !.operation = t[1], !.fileTestID = t[2],
                                 !.endpointID = t[3], !.result = ResultOf(g),
                                 !.waited = lock # {}]]
    /\ UNCHANGED <<checkerVars, tableVars, results, fileTestSizes, lock,
                   applied, out>>

\* Report takes the lock and looks the file-test up
ReportLock(g) ==
    /\ callers[g].pc = "lock" /\ callers[g].kind = "Report"
    /\ ReportLockFree(lock)
    /\ lock' = lock \cup {g}
    /\ applied' = Append(applied, g)
    /\ callers' = [callers EXCEPT ![g].pc = "fileTest",
                                  ![g].ok = callers[g].fileTestID \in DOMAIN results]
    /\ UNCHANGED <<checkerVars, tableVars, results, fileTestSizes, out>>

\* Report makes the file-test's map if the lookup missed, and looks the
\* operation up
ReportFileTest(g) ==
    /\ callers[g].pc = "fileTest"
    /\ LET c == callers[g]
           made == IF c.ok THEN results ELSE Put(results, c.fileTestID, EmptyMap)
       IN  /\ results' = made
           /\ callers' = [callers EXCEPT ![g].pc = "store",
                                         ![g].ok = c.operation \in DOMAIN made[c.fileTestID]]
    /\ UNCHANGED <<checkerVars, tableVars, fileTestSizes, lock, applied, out>>

\* Report makes the operation's map if the lookup missed, and stores the
\* Result; storing into a map that is not there panics
ReportStore(g) ==
    /\ callers[g].pc = "store"
    /\ LET c == callers[g]
           made == IF c.ok THEN results
                   ELSE [results EXCEPT ![c.fileTestID] = Put(@, c.operation, EmptyMap)]
       IN  IF c.operation \in DOMAIN made[c.fileTestID]
           THEN /\ results' = [made EXCEPT ![c.fileTestID][c.operation] =
                                 Put(@, c.endpointID, c.result)]
                /\ callers' = [callers EXCEPT ![g].pc = "unlock"]
           ELSE /\ results' = results
                /\ callers' = [callers EXCEPT ![g].pc = "panic"]
    /\ UNCHANGED <<checkerVars, tableVars, fileTestSizes, lock, applied, out>>

\* Report's deferred Unlock, and its return of nil
ReportUnlock(g) ==
    /\ callers[g].pc = "unlock"
    /\ lock' = lock \ {g}
    /\ callers' = [callers EXCEPT ![g].pc = "returned", ![g].err = Nil]
    /\ UNCHANGED <<checkerVars, tableVars, results, fileTestSizes, applied, out>>

\* a goroutine calls FormatResults
FormatCall(g) ==
    /\ callers[g].pc = "idle"
    /\ callers' = [callers EXCEPT ![g].kind = "FormatResults", ![g].pc = "lock",
                                  ![g].waited = lock # {}]
    /\ UNCHANGED <<checkerVars, tableVars, results, fileTestSizes, lock,
                   applied, out>>

\* FormatResults takes the lock
FormatLock(g) ==
    /\ callers[g].pc = "lock" /\ callers[g].kind = "FormatResults"
    /\ FormatLockFree(lock)
    /\ lock' = lock \cup {g}
    /\ applied' = Append(applied, g)
    /\ callers' = [callers EXCEPT ![g].pc = "ids"]
    /\ UNCHANGED <<checkerVars, tableVars, results, fileTestSizes, out>>

\* formatResults collects the IDs of the store
FormatIDs(g) ==
    /\ callers[g].pc = "ids"
    /\ \E order \in RangeOrders :
         callers' = [callers EXCEPT ![g].pc = "sections",
                                    ![g].ids = uniqueSortedIDs(results, order)]
    /\ UNCHANGED <<checkerVars, tableVars, results, fileTestSizes, lock,
                   applied, out>>

\* formatResults renders the sections; the deferred Unlock and the return
FormatReturn(g) ==
    /\ callers[g].pc = "sections"
    /\ LET o == formatSections(fileTestSizes, results, callers[g].ids)
       IN  /\ callers' = [callers EXCEPT ![g].pc = "returned",
                                         ![g].text = o.text, ![g].err = o.err]
           /\ out' = Outcome(o)
    /\ lock' = lock \ {g}
    /\ UNCHANGED <<checkerVars, tableVars, results, fileTestSizes, applied>>

ReporterNext ==
    \/ \E g \in Callers : ReportCall(g)
    \/ \E g \in Callers : ReportLock(g)
    \/ \E g \in Callers : ReportFileTest(g)
    \/ \E g \in Callers : ReportStore(g)
    \/ \E g \in Callers : ReportUnlock(g)
    \/ \E g \in Callers : FormatCall(g)
    \/ \E g \in Callers : FormatLock(g)
    \/ \E g \in Callers : FormatIDs(g)
    \/ \E g \in Callers : FormatReturn(g)

ReporterSpec == ReporterInit /\ [][ReporterNext]_vars

----------------------------------------------------------------------------
(* MakeTable on its own *)

\* largest number of rows and of columns handed to MakeTable
MaxRows == 3
MaxColumns == 2
MaxIndex == 11

Items == {"a", "bb"}
RowChoices == UNION {[1..n -> Items] : n \in 0..MaxColumns}
RowLists == UNION {[1..n -> RowChoices] : n \in 0..MaxRows}
Separators == {"-", ""}

TableInit ==
    /\ CheckerIdle
    /\ ReporterIdle
    /\ results = EmptyMap
    /\ fileTestSizes = EmptyMap
    /\ rows \in RowLists
    /\ table = NoTable
    /\ args \in [called : {TRUE}, headerSeperator : Separators]
    /\ value = NoCall

CallMakeTable ==
    /\ ~table.called
    /\ LET t == MakeTable(rows, args.headerSeperator)
       IN  table' = [called |-> TRUE, text |-> t.text, err |-> t.err,
                     panic |-> t.panic]
    /\ UNCHANGED <<checkerVars, reporterVars, results, rows, args, value>>

TableNext == CallMakeTable

TableSpec == TableInit /\ [][TableNext]_vars

----------------------------------------------------------------------------
(* formatResultForRow on its own *)

SizeChoices == {10000000, 250000, 15625}
DurationChoices == {0, 1, 3, 5, 8}

CellArguments ==
    [called : {TRUE}, op : Operations, fileTestSize : SizeChoices,
     result : {NilResult}
              \cup [StartTime : {0}, Duration : DurationChoices,
                    Success : BOOLEAN, Error : {"", "boom"}]]

CellInit ==
    /\ CheckerIdle
    /\ ReporterIdle
    /\ results = EmptyMap
    /\ fileTestSizes = EmptyMap
    /\ rows = <<>>
    /\ table = NoTable
    /\ args \in CellArguments
    /\ value = NoCall

CallFormatResultForRow ==
    /\ ~value.called
    /\ value' = [called |-> TRUE,
                 text |-> formatResultForRow(args.op, args.fileTestSize, args.result)]
    /\ UNCHANGED <<checkerVars, reporterVars, results, rows, table, args>>

CellNext == CallFormatResultForRow

CellSpec == CellInit /\ [][CellNext]_vars

----------------------------------------------------------------------------
(* pathName on its own *)

\* file-test IDs as the configuration's keys may be chosen
PathIDs == {"ft1", "ft11", "ft2"}

PathArguments ==
    [called : {TRUE},
     a : [id : PathIDs, i : 0..MaxIndex],
     b : [id : PathIDs, i : 0..MaxIndex]]

PathInit ==
    /\ CheckerIdle
    /\ ReporterIdle
    /\ results = EmptyMap
    /\ fileTestSizes = EmptyMap
    /\ rows = <<>>
    /\ table = NoTable
    /\ args \in PathArguments
    /\ value = NoCall

\* the names two workers address
CallPathName ==
    /\ ~value.called
    /\ value' = [called |-> TRUE,
                 a |-> pathName(args.a.id, args.a.i),
                 b |-> pathName(args.b.id, args.b.i)]
    /\ UNCHANGED <<checkerVars, reporterVars, results, rows, table, args>>

PathNext == CallPathName

PathSpec == PathInit /\ [][PathNext]_vars

----------------------------------------------------------------------------
(* Properties of the Checker *)

Starts == {k \in DOMAIN log : log[k].ev = "start"}
Submits == {k \in DOMAIN log : log[k].ev = "submit"}
SamePair(j, k) == log[j].ft = log[k].ft /\ log[j].ep = log[k].ep

\* an operation has just submitted its Result: its workers, its context and
\* its Result are still in the state
JustSubmitted ==
    /\ pc \in {"Start", "RunChecks", "done"}
    /\ log # <<>>
    /\ log[Len(log)].ev = "submit"
    /\ workers # <<>>

LastOp == log[Len(log)].op

\* the non-nil errors the workers returned, in order of time
WorkerErrors == SelectSeq(returns, LAMBDA r : r.w.ret # Nil)

\* the operation's timeout elapsed while a worker had not returned
Expired == \E k \in DOMAIN returns : returns[k].at >= deadline

\* the worker's stream was opened and read to its end without error
Received(r) == r.w.opened /\ r.w.readErr = Nil
Matches(r) == Sum256(r.w.strm) = Sum256(fileReader(fileTest, r.i))

AllAccepted == \A k \in Submits : log[k].reportErr = Nil

\* C1: for every pair, Upload starts first, Download starts only after the
\* Upload of the pair has submitted its Result, and Delete starts only after
\* both the Upload and the Download of the pair have submitted theirs.
C1_OperationOrder ==
    \A k \in Starts :
        LET submitted(o) == \E j \in Submits :
                               j < k /\ SamePair(j, k) /\ log[j].op = o
            earlier == \E j \in 1..(k - 1) : SamePair(j, k)
        IN  /\ log[k].op = Upload => ~earlier
            /\ log[k].op = Download => submitted(Upload) /\ ~submitted(Delete)
            /\ log[k].op = Delete => submitted(Upload) /\ submitted(Download)

C1_Witness ==
    \E k \in Starts : log[k].op = Delete /\ k = 5

\* C2: every execution of an operation is followed by exactly one submitted
\* Result, carrying the execution's own operation, file-test ID and endpoint
\* ID; no execution has returned without submitting, none submits twice.
C2_ExactlyOneResult ==
    /\ \A k \in DOMAIN log :
         IF k % 2 = 1
         THEN log[k].ev = "start"
         ELSE /\ log[k].ev = "submit"
              /\ log[k].reported = log[k - 1].op
              /\ SamePair(k - 1, k)
              /\ log[k].epID = endpoints[log[k - 1].ep].ID
    /\ (Len(log) % 2 = 1) <=> (pc = "Wait")

C2_Witness ==
    /\ JustSubmitted
    /\ LastOp = Delete
    /\ result.Error = ErrorString(CtxError("storj"))
    /\ \E k \in Submits : log[k].success

\* C3: when the reporter accepted every Result, RunChecks returns no error
\* and has started all three operations of every pair, whatever failed.
C3_FailuresDoNotStopSweep ==
    (pc = "done" /\ AllAccepted) =>
        /\ retErr = Nil
        /\ \A id \in DOMAIN fileTests, e \in DOMAIN endpoints, o \in Operations :
             \E k \in Starts : log[k].ft = id /\ log[k].ep = e /\ log[k].op = o

C3_Witness ==
    /\ pc = "done"
    /\ AllAccepted
    /\ Len(log) = 12
    /\ ~log[2].success

\* C4: a Result the reporter rejected is the last event of the sweep:
\* nothing starts after it and RunChecks has returned the reporter's error.
C4_ReporterErrorAborts ==
    \A k \in Submits :
        log[k].reportErr # Nil =>
            k = Len(log) /\ pc = "done" /\ retErr = log[k].reportErr

C4_Witness ==
    /\ pc = "done"
    /\ retErr # Nil
    /\ Len(log) = 2
    /\ remaining # {} \/ epIdx < Len(endpoints)

\* C5: an operation whose timeout elapsed while a worker had not returned
\* submits a failure with a non-empty Error.
C5_TimeoutFails ==
    (JustSubmitted /\ Expired) => ~result.Success /\ result.Error # ""

\* C6: the submitted Result is a failure exactly when some worker returned
\* an error, and its Error is then the message of the error returned first.
C6_FirstErrorWins ==
    JustSubmitted =>
        /\ ~result.Success <=> WorkerErrors # <<>>
        /\ WorkerErrors # <<>> =>
             result.Error = ErrorString(WorkerErrors[1].w.ret)

C6_Witness ==
    /\ JustSubmitted
    /\ Len(WorkerErrors) = 2
    /\ WorkerErrors[1].w.ret # WorkerErrors[2].w.ret

\* C7: no worker exists while the start time is taken, and when the Result is
\* submitted every worker has returned, none before the start time and none
\* after the start time plus the duration.
C7_DurationSpansAllWorkers ==
    /\ pc = "Wait" => result.StartTime <= now
    /\ JustSubmitted =>
         /\ Running = {}
         /\ Len(returns) = fileTest.NumParallel
         /\ \A k \in DOMAIN returns :
              /\ result.StartTime <= returns[k].at
              /\ returns[k].at <= result.StartTime + result.Duration

C7_Witness ==
    /\ JustSubmitted
    /\ Len(returns) = 2
    /\ returns[1].w.ret # Nil
    /\ returns[2].at > returns[1].at

\* C8: a download worker whose stream opened, was read and matched the
\* expected digest, but whose Close failed, returns an error, and the
\* Download is recorded as failed.
C8_CloseErrorMerged ==
    (JustSubmitted /\ LastOp = Download) =>
        \A k \in DOMAIN returns :
            (Received(returns[k]) /\ Matches(returns[k])
               /\ returns[k].w.closeErr # Nil) =>
                (returns[k].w.ret # Nil /\ ~result.Success)

\* C9: a Download is a failure when some worker received bytes whose digest
\* differs from the digest of the worker's regenerated payload, and a success
\* when every worker's stream opened, was read and matched.
C9_DownloadVerification ==
    (JustSubmitted /\ LastOp = Download) =>
        /\ (\E k \in DOMAIN returns :
               Received(returns[k]) /\ ~Matches(returns[k])) => ~result.Success
        /\ (/\ Len(returns) = fileTest.NumParallel
            /\ \A k \in DOMAIN returns :
                 Received(returns[k]) /\ Matches(returns[k])) => result.Success

C9_Witness ==
    /\ JustSubmitted
    /\ LastOp = Download
    /\ \E k \in DOMAIN returns : Received(returns[k]) /\ ~Matches(returns[k])
    /\ \E k \in DOMAIN returns : Received(returns[k]) /\ Matches(returns[k])

\* C10: every submitted Result, and every Result of the store, has Success
\* true exactly when its Error is empty.
C10_SuccessIffNoError ==
    /\ JustSubmitted => (result.Success <=> result.Error = "")
    /\ \A id \in DOMAIN results :
         \A o \in DOMAIN results[id] :
           \A e \in DOMAIN results[id][o] :
             results[id][o][e].Success <=> results[id][o][e].Error = ""

----------------------------------------------------------------------------
(* Properties of the TextReporter *)

ReportCallers == {g \in DOMAIN callers : callers[g].kind = "Report"}
FormatCallers == {g \in DOMAIN callers : callers[g].kind = "FormatResults"}
AllReturned ==
    /\ callers # <<>>
    /\ \A g \in DOMAIN callers : callers[g].pc = "returned"

\* the store after the Report calls of the goroutines gs, one after the other
RECURSIVE ApplyReports(_, _)
ApplyReports(res, gs) ==
    IF gs = <<>> THEN res
    ELSE LET c == callers[Head(gs)]
         IN  ApplyReports(Report(res, c.operation, c.fileTestID, c.endpointID,
                                 c.result), Tail(gs))

\* the sequences that hold every element of S once
Orderings(S) ==
    {s \in [1..Cardinality(S) -> S] :
        \A i, j \in 1..Cardinality(S) : s[i] = s[j] => i = j}

TripleOf(c) == <<c.operation, c.fileTestID, c.endpointID>>
Triples == Operations \X FileTestIDs \X EndpointIDs
Entry(res, t) == Lookup(res, t[2], t[1], t[3])

\* C11: when every goroutine's call has returned, the store is the store that
\* the same Report calls give when applied one after the other in some
\* order: every entry submitted is there, and nothing else is.
C11_ConcurrentReportsSerialise ==
    AllReturned =>
        \E s \in Orderings(ReportCallers) :
            results = ApplyReports(EmptyMap, s)

C11_Witness ==
    /\ AllReturned
    /\ Cardinality({g \in ReportCallers : callers[g].waited}) >= 2
    /\ \E g, h \in ReportCallers :
         /\ callers[g].fileTestID = callers[h].fileTestID
         /\ callers[g].operation = callers[h].operation
         /\ callers[g].endpointID # callers[h].endpointID
         /\ Entry(results, TripleOf(callers[g])) = callers[g].result
         /\ Entry(results, TripleOf(callers[h])) = callers[h].result

\* the Report calls in the order they took effect
AppliedReports == SelectSeq(applied, LAMBDA g : g \in ReportCallers)

\* positions of AppliedReports whose call submitted to the triple t
CallsTo(t) ==
    {k \in DOMAIN AppliedReports : TripleOf(callers[AppliedReports[k]]) = t}

\* C12: the entry of every triple is the Result of the last Report call made
\* for that triple, and no entry at all when no call was made for it: a call
\* replaces the entry of its own triple and touches no other; an entry whose
\* Result carries an error renders as ERR; every Report call returned nil.
C12_ReportSetsOneEntry ==
    /\ \A t \in Triples :
         IF CallsTo(t) = {}
         THEN Entry(results, t) = NilResult
         ELSE LET last == callers[AppliedReports[MaxOf(CallsTo(t))]]
              IN  /\ Entry(results, t) = last.result
                  /\ last.result.Error # "" =>
                       formatResultForRow(t[1], SizeOf(fileTestSizes, t[2]),
                                          Entry(results, t)) = "ERR"
    /\ \A g \in ReportCallers :
         callers[g].pc = "returned" => callers[g].err = Nil

C12_Witness ==
    /\ Len(AppliedReports) = 2
    /\ CallsTo(<<Upload, "ft1", "end1">>) = {1, 2}
    /\ callers[AppliedReports[1]].result.Error = ""
    /\ callers[AppliedReports[2]].result.Error = "boom"
    /\ \E t \in Triples : Entry(results, t) = NilResult
    /\ out.calls = 1
    /\ out.err = Nil

PositionOfCall(g) == CHOOSE k \in DOMAIN applied : applied[k] = g

\* the store made by the Report calls ordered before the call of goroutine g
StoreBefore(g) ==
    ApplyReports(EmptyMap,
                 SelectSeq(SubSeq(applied, 1, PositionOfCall(g) - 1),
                           LAMBDA h : h \in ReportCallers))

\* C13: while a FormatResults call is formatting, the store is the store
\* made by the Report calls ordered before it, and the text and the error it
\* returns are the formatting of exactly that store.
C13_FormatIsAtomic ==
    \A g \in FormatCallers :
        /\ callers[g].pc \in {"ids", "sections"} => results = StoreBefore(g)
        /\ callers[g].pc = "returned" =>
             LET o == formatResults(fileTestSizes, StoreBefore(g), AscendingOrder)
             IN  callers[g].text = o.text /\ callers[g].err = o.err

\* a FormatResults call has returned a report of the Result of a Report call
\* ordered before it, while a Report call issued when the lock was held is
\* ordered after it
C13_Witness ==
    \E g \in FormatCallers, h, h2 \in ReportCallers :
        /\ callers[g].pc = "returned"
        /\ callers[h].pc = "returned"
        /\ callers[h2].pc = "returned"
        /\ callers[g].text # ""
        /\ callers[h2].waited
        /\ TripleOf(callers[h]) = TripleOf(callers[h2])
        /\ PositionOfCall(h) < PositionOfCall(g)
        /\ PositionOfCall(g) < PositionOfCall(h2)

\* FormatResults has returned a report of the store as it is
Rendered == out.calls > 0 /\ out.err = Nil

StoreIDs == uniqueSortedIDs(results, AscendingOrder)

\* the cell of a section's table for an operation row and an endpoint column
Cell(ftID, i, j) == tableRows(fileTestSizes, results, StoreIDs, ftID)[i + 1][j + 1]

\* the cells of the rendered tables, with the triple each stands for
Cells ==
    {[ft |-> StoreIDs.fileTestIDs[k], op |-> StoreIDs.operations[i],
      ep |-> StoreIDs.endpointIDs[j],
      cell |-> Cell(StoreIDs.fileTestIDs[k], i, j)] :
        k \in DOMAIN StoreIDs.fileTestIDs, i \in DOMAIN StoreIDs.operations,
        j \in DOMAIN StoreIDs.endpointIDs}

\* C14: in a rendered report a cell is "-" exactly when the store has no
\* Result for its triple, and "ERR" exactly when it has one with a non-empty
\* Error, whatever the operation, the duration and the Success flag.
C14_CellPrecedence ==
    Rendered =>
        \A c \in Cells :
            LET r == Lookup(results, c.ft, c.op, c.ep)
            IN  /\ c.cell = "-" <=> r = NilResult
                /\ c.cell = "ERR" <=> (r # NilResult /\ r.Error # "")

C14_Witness ==
    /\ Rendered
    /\ \E c \in Cells : c.cell = "-"
    /\ \E c \in Cells :
         c.cell = "ERR" /\ Lookup(results, c.ft, c.op, c.ep).Success
    /\ \E c \in Cells :
         /\ c.cell \notin {"-", "ERR"}
         /\ ~Lookup(results, c.ft, c.op, c.ep).Success
         /\ Lookup(results, c.ft, c.op, c.ep).Duration = 0

\* the file-tests of the store whose size is zero or not configured
Unconfigured ==
    {id \in DOMAIN results :
        id \notin DOMAIN fileTestSizes \/ fileTestSizes[id] = 0}

UnknownSizeError(id) == Err("Unknown fileTestSize for " \o id)

\* C15 as stated: when the store holds a Result of a file-test without a
\* size, FormatResults returns no text and an error naming that file-test.
C15_UnknownSizeNamesFileTest ==
    out.calls > 0 =>
        \A id \in Unconfigured :
            out.text = "" /\ out.err = UnknownSizeError(id)

\* C15 amended: when the store holds a Result of some file-test without a
\* size, FormatResults returns no text and an error naming the least ID
\* among the file-tests of the store without a size.
C15_UnknownSizeNamesFirst ==
    (out.calls > 0 /\ Unconfigured # {}) =>
        /\ out.text = ""
        /\ \E id \in Unconfigured :
             /\ \A other \in Unconfigured : IDRank[id] <= IDRank[other]
             /\ out.err = UnknownSizeError(id)

\* ft1 is configured and rendered fine on its own, ft2 is not and holds a
\* Delete only
C15_Witness ==
    /\ out.calls > 0
    /\ Unconfigured = {"ft2"}
    /\ "ft1" \in DOMAIN results
    /\ DOMAIN results["ft2"] = {Delete}
    /\ out.err = UnknownSizeError("ft2")

\* the file-tests, operations and endpoints that appear in an entry of the store
StoreFileTests == DOMAIN results
StoreOperations == UNION {DOMAIN results[id] : id \in DOMAIN results}
StoreEndpoints ==
    UNION {UNION {DOMAIN results[id][o] : o \in DOMAIN results[id]} :
              id \in DOMAIN results}

\* the elements of S once each, in ascending order of rank
Ascending(S, rank) ==
    [k \in 1..Cardinality(S) |->
        CHOOSE x \in S : Cardinality({y \in S : rank[y] < rank[x]}) = k - 1]

\* sections, rows and columns as the layout rule gives them from the store
LayoutIDs ==
    [fileTestIDs |-> Ascending(StoreFileTests, IDRank),
     endpointIDs |-> Ascending(StoreEndpoints, IDRank),
     operations |-> Ascending(StoreOperations, OperationRank)]

DistinctTriples ==
    \A g, h \in ReportCallers :
        TripleOf(callers[g]) = TripleOf(callers[h]) => g = h

\* C16: the outcome of FormatResults is the rendering of the store with the
\* sections in ascending file-test ID order, the rows in the order Upload,
\* Download, Delete and the columns in ascending endpoint ID order, whatever
\* order range visited the maps in; and the Report calls made, when they are
\* to distinct triples, give this same store in every order.
C16_LayoutIndependentOfOrder ==
    /\ out.calls > 0 =>
         LET o == formatSections(fileTestSizes, results, LayoutIDs)
         IN  out.text = o.text /\ out.err = o.err
    /\ DistinctTriples =>
         \A s \in Orderings(ReportCallers) : ApplyReports(EmptyMap, s) = results

\* submitted in descending order of file-test and of endpoint
C16_Witness ==
    /\ Rendered
    /\ Len(AppliedReports) = 2
    /\ TripleOf(callers[AppliedReports[1]]) = <<Upload, "ft2", "end2">>
    /\ TripleOf(callers[AppliedReports[2]]) = <<Upload, "ft1", "end1">>

\* how often x occurs in the sequence seq
Occurrences(seq, x) == Cardinality({k \in DOMAIN seq : seq[k] = x})

\* the header row and the first column of a section's table
HeaderOf(ids, ftID) == tableRows(fileTestSizes, results, ids, ftID)[1]
FirstColumnOf(ids, ftID) ==
    [i \in DOMAIN tableRows(fileTestSizes, results, ids, ftID) |->
        tableRows(fileTestSizes, results, ids, ftID)[i][1]]

\* C17: in a rendered report, whatever order range visited the maps in, every
\* section's table has after the "Operation" column one column for each
\* endpoint of the store and no other, and after the header one row for each
\* operation of the store and no other, each of full width; the cells of
\* triples without a Result are "-".
C17_RowsAndColumnsOfWholeStore ==
    Rendered =>
        \A order \in RangeOrders : \A id \in StoreFileTests :
            LET ids == uniqueSortedIDs(results, order)
                rs == tableRows(fileTestSizes, results, ids, id)
            IN  /\ Len(HeaderOf(ids, id)) = 1 + Cardinality(StoreEndpoints)
                /\ \A e \in EndpointIDs :
                     Occurrences(HeaderOf(ids, id), e) =
                        (IF e \in StoreEndpoints THEN 1 ELSE 0)
                /\ Len(rs) = 1 + Cardinality(StoreOperations)
                /\ \A o \in Operations :
                     Occurrences(FirstColumnOf(ids, id), OperationString(o)) =
                        (IF o \in StoreOperations THEN 1 ELSE 0)
                /\ \A i \in DOMAIN rs : Len(rs[i]) = Len(rs[1])
                /\ \A i \in DOMAIN ids.operations, j \in DOMAIN ids.endpointIDs :
                     Lookup(results, id, ids.operations[i], ids.endpointIDs[j]) = NilResult
                        => rs[i + 1][j + 1] = "-"

\* each file-test has a Result for an operation and an endpoint the other has
\* none for
C17_Witness ==
    /\ Rendered
    /\ StoreFileTests = {"ft1", "ft2"}
    /\ DOMAIN results["ft1"] = {Download}
    /\ DOMAIN results["ft2"] = {Delete}
    /\ StoreEndpoints = {"end1", "end2"}
    /\ Cell("ft1", 2, 1) = "-"
    /\ Cell("ft2", 1, 2) = "-"

\* the file-tests with a configured size and no Result in the store
Unreported ==
    {id \in DOMAIN fileTestSizes : fileTestSizes[id] # 0 /\ id \notin StoreFileTests}

\* C18: when the store holds Results and each of its file-tests has a size,
\* FormatResults succeeds and its report has a section also for each
\* configured file-test without any Result, whose table has the columns and
\* rows of the store and "-" in every cell.
C18_UnreportedFileTestGetsTable ==
    (out.calls > 0 /\ results # EmptyMap /\ Unconfigured = {}) =>
        /\ out.err = Nil
        /\ out.text =
             formatSections(fileTestSizes, results,
                 [LayoutIDs EXCEPT !.fileTestIDs =
                     Ascending(StoreFileTests \cup Unreported, IDRank)]).text

\* C19: a step in which FormatResults returns leaves the store and the size
\* map as they were, and when an earlier FormatResults call returned with no
\* Report call since, it returns the same text and the same error as that
\* call, whatever order range visits the maps in.
C19_FormatReadOnlyIdempotent ==
    [][out'.calls > 0 =>
          /\ results' = results
          /\ fileTestSizes' = fileTestSizes
          /\ out.calls > 0 => (out'.text = out.text /\ out'.err = out.err)]_vars

\* FormatResults has returned twice in a row, with several operations,
\* endpoints and file-tests in the store
C19_Witness ==
    /\ out.calls = 2
    /\ Rendered
    /\ Cardinality(StoreOperations) = 2
    /\ Cardinality(StoreEndpoints) = 2
    /\ Cardinality(StoreFileTests) = 2

----------------------------------------------------------------------------
(* Properties of MakeTable *)

\* some row has another number of columns than the header row
Ragged(rs) == \E k \in DOMAIN rs : Len(rs[k]) # Len(rs[1])

\* C20: for rows of which one has another number of columns than the first,
\* MakeTable returns an error and no table.
C20_RaggedRejected ==
    (table.called /\ Ragged(rows)) =>
        table.err # Nil /\ table.text = ""

----------------------------------------------------------------------------
(* Properties of formatResultForRow *)

\* the decimal text of h hundredths
TwoDecimals(h) ==
    ToString(h \div 100) \o "." \o ToString((h \div 10) % 10) \o ToString(h % 10)

\* h hundredths are S*8/1,000,000/D rounded to two decimal digits: they
\* differ from it by half a hundredth at most
RoundedMbps(h, S, D) ==
    LET diff == h * (BytesPerMegabit * D) - 100 * S
    IN  2 * (IF diff < 0 THEN -diff ELSE diff) <= BytesPerMegabit * D

\* C21: the cell of an Upload or Download Result without error, for a size
\* of S bytes and a duration of D > 0 seconds, is S*8/1,000,000/D rounded to
\* two decimal digits, followed by " Mbps"; 10,000,000 bytes give
\* "16.00 Mbps" in 5 s and "10.00 Mbps" in 8 s.
C21_MbpsRendering ==
    (/\ value.called
     /\ args.op \in {Upload, Download}
     /\ args.result # NilResult
     /\ args.result.Error = ""
     /\ args.result.Duration > 0) =>
        LET S == args.fileTestSize
            D == args.result.Duration
            floor == (100 * S) \div (BytesPerMegabit * D)
        IN  /\ \E h \in {floor, floor + 1} :
                 /\ RoundedMbps(h, S, D)
                 /\ value.text = TwoDecimals(h) \o " Mbps"
            /\ (S = 10000000 /\ D = 5) => value.text = "16.00 Mbps"
            /\ (S = 10000000 /\ D = 8) => value.text = "10.00 Mbps"

\* a value that rounds up: 250,000 bytes in 3 s are 0.666... Mbps
C21_Witness ==
    /\ value.called
    /\ args.op = Download
    /\ args.fileTestSize = 250000
    /\ args.result # NilResult
    /\ args.result.Error = ""
    /\ args.result.Duration = 3
    /\ value.text = "0.67 Mbps"

----------------------------------------------------------------------------
(* Properties of the separator and the padding of MakeTable *)

\* the widest cell of column i
ColumnWidth(rs, i) == MaxOf({Len(rs[k][i]) : k \in DOMAIN rs})

\* the sum of the column widths plus 5 for every column except the last
RuleLength(rs) ==
    LET n == Len(rs[1])
    IN  SumOf([i \in 1..n |-> ColumnWidth(rs, i)])
        + (IF n = 0 THEN 0 ELSE 5 * (n - 1))

\* row k as the claim lays it out
PaddedRow(rs, k) ==
    LET n == Len(rs[k])
    IN  Join([i \in 1..n |->
                IF i < n
                THEN rs[k][i] \o Repeat(" ", ColumnWidth(rs, i) + 5 - Len(rs[k][i]))
                ELSE rs[k][i] \o "\n"])

\* the whole table as the claim lays it out
PaddedTable(rs, sep) ==
    Join([k \in DOMAIN rs |->
            PaddedRow(rs, k)
            \o (IF k = 1 /\ sep # ""
                THEN Repeat(sep, RuleLength(rs)) \o "\n"
                ELSE "")])

\* C22: for rows that all have the same number of columns, MakeTable returns
\* the rows with every cell but the last of a row padded to its column's
\* width plus 5 spaces, and, unless the separator is empty, one separator
\* line directly after the first row whose length is the sum of the column
\* widths plus 5 for every column except the last.
C22_SeparatorAndPadding ==
    (table.called /\ rows # <<>> /\ ~Ragged(rows)) =>
        /\ ~table.panic
        /\ table.err = Nil
        /\ table.text = PaddedTable(rows, args.headerSeperator)

----------------------------------------------------------------------------
(* Properties of RunCheck's defaults *)

\* a pair is between the start of its Upload and the return of its Delete
InPair == pc \in {"Start", "Wait"}

Configured == fileTests[fileTestID]

\* the values RunCheck works on are the configured ones with the defaults
DefaultsResolved ==
    /\ fileTest.Size = Configured.Size
    /\ fileTest.NumParallel =
         (IF Configured.NumParallel <= 0 THEN 1 ELSE Configured.NumParallel)
    /\ fileTest.Timeout =
         (IF Configured.Timeout <= 0 THEN timeout ELSE Configured.Timeout)
    /\ IF Configured.Seed <= 0
       THEN \E t \in 0..now : fileTest.Seed = UnixNano(t)
       ELSE fileTest.Seed = Configured.Seed

\* C23: while the operations of a pair run, the file-test they work on is
\* the configured one with parallelism <= 0 replaced by 1, timeout <= 0 by
\* the global timeout and seed <= 0 by one time-derived seed; every
\* operation has that many workers and that timeout, and what the Upload of
\* the pair stored and what its Download expects come from that one seed.
C23_ResolvedOnce ==
    InPair =>
        /\ DefaultsResolved
        /\ pc = "Wait" =>
             /\ DOMAIN workers = 0..(fileTest.NumParallel - 1)
             /\ deadline = result.StartTime + fileTest.Timeout
        /\ \A i \in 0..(fileTest.NumParallel - 1) :
             LET name == pathName(fileTestID, i)
             IN  name \in DOMAIN storage[epIdx] =>
                    storage[epIdx][name] = fileReader(fileTest, i)
        /\ (pc = "Wait" /\ operation = Download) =>
             \A i \in 0..(fileTest.NumParallel - 1) :
                 expectedHashes[i + 1] = Sum256(fileReader(fileTest, i))

\* the Download of a pair whose configured values are all defaults, started
\* after time has passed, with the uploaded object in storage
C23_Witness ==
    /\ pc = "Wait"
    /\ operation = Download
    /\ Configured.NumParallel = 0
    /\ Configured.Timeout = 0
    /\ Configured.Seed = 0
    /\ fileTest.Seed = UnixNano(1)
    /\ pathName(fileTestID, 0) \in DOMAIN storage[epIdx]

----------------------------------------------------------------------------
(* Properties of pathName *)

\* C24: the object name of a worker is a function of the file-test ID and
\* the worker index that is injective: two different pairs of file-test ID
\* and worker index never give the same name.
C24_PathNameInjective ==
    (value.called /\ args.a # args.b) => value.a # value.b

----------------------------------------------------------------------------
(* Properties of a sweep against a faithful storage client *)

\* so far no client call failed, damaged an object or returned after the
\* timeout of its operation had elapsed
Faithful ==
    /\ faults = 0
    /\ \A k \in Submits : ~log[k].late
    /\ pc = "Wait" => ~Expired

AllSucceeded == \A k \in Submits : log[k].success

\* every pair has submitted a successful Result for each operation
EveryPairSucceeded ==
    \A ft \in DOMAIN fileTests, e \in DOMAIN endpoints, op \in Operations :
        \E k \in Submits :
            /\ log[k].ft = ft
            /\ log[k].ep = e
            /\ log[k].op = op
            /\ log[k].success

StorageEmpty == \A e \in DOMAIN storage : storage[e] = EmptyMap

\* what a faithful client leads to
RoundTrip ==
    /\ AllSucceeded
    /\ (JustSubmitted /\ LastOp = Download) =>
          \A k \in DOMAIN returns : Received(returns[k]) /\ Matches(returns[k])
    /\ pc = "done" => EveryPairSucceeded /\ StorageEmpty

----------------------------------------------------------------------------
(* Properties of the store after a sweep *)

\* the triples the store holds an entry for
StoreEntries == {t \in Triples : Entry(results, t) # NilResult}

\* the submission of the execution of op for file-test ft on endpoint e
SubmitsOf(ft, e, op) ==
    {k \in Submits : log[k].ft = ft /\ log[k].ep = e /\ log[k].op = op}

\* C26: after RunChecks has returned without error with a reporter that
\* accepted every Result, the store holds one entry for every combination of
\* configured file-test, endpoint of the list and operation, each the Result
\* of that endpoint's own execution, and no other entry.
C26_OneEntryPerExecution ==
    (pc = "done" /\ retErr = Nil /\ AllAccepted) =>
        /\ Cardinality(StoreEntries)
             = Cardinality(DOMAIN fileTests) * Len(endpoints) * Cardinality(Operations)
        /\ \A ft \in DOMAIN fileTests, e \in DOMAIN endpoints, op \in Operations :
             LET r == Lookup(results, ft, op, endpoints[e].ID)
             IN  /\ r # NilResult
                 /\ \E k \in SubmitsOf(ft, e, op) : r.Success = log[k].success
        /\ \A t \in StoreEntries :
             /\ t[2] \in DOMAIN fileTests
             /\ \E e \in DOMAIN endpoints : endpoints[e].ID = t[3]

----------------------------------------------------------------------------
(* Termination of RunChecks *)

\* every pair has submitted a Result for each of the three operations
EveryPairExecuted ==
    \A ft \in DOMAIN fileTests, e \in DOMAIN endpoints, op \in Operations :
        SubmitsOf(ft, e, op) # {}

\* C27: when every client call eventually returns, RunChecks eventually
\* returns, and when the reporter accepted every Result it has returned only
\* after all three operations of every pair were executed.
C27_Terminates ==
    /\ <>(pc = "done")
    /\ []((pc = "done" /\ AllAccepted) => EveryPairExecuted)

\* RunChecks has returned after calls failed and an operation ran into its
\* timeout
C27_Witness ==
    /\ pc = "done"
    /\ AllAccepted
    /\ faults > 0
    /\ \E k \in Submits : log[k].late
    /\ EveryPairExecuted

====
